---- MODULE Spec2Model ----
(***************************************************************************)
(* Model of EstacaoMeteorologica.c (Raspberry Pi Pico W weather station):  *)
(* the button interrupt (gpio_callback), the 2 s sample cycle of main, and *)
(* the lwIP receive callback (tcp_server_recv) with its handlers.          *)
(*                                                                         *)
(* Conventions                                                             *)
(*  - A C string is a sequence of one-character strings.                   *)
(*  - A float is a decimal fixed-point number with three fractional        *)
(*    digits, stored as the integer value * 1000 (10.0f is 10000).  The    *)
(*    inputs of the model are chosen exactly representable in binary32.    *)
(*  - A pointer to a string literal is the literal's text as a TLA+        *)
(*    string; NULL and a wild pointer are two more values.                 *)
(*  - Execution contexts: main (thread mode), the lwIP callback (the       *)
(*    build links pico_cyw43_arch_lwip_threadsafe_background, so the       *)
(*    callback runs from a low-priority interrupt and preempts main), and  *)
(*    the GPIO interrupt (preempts both).                                  *)
(***************************************************************************)
EXTENDS Integers, Sequences, FiniteSets, TLC

(***************************************************************************)
(* Bounds of the model                                                     *)
(***************************************************************************)
\* Last clock value (ms since boot) the navigation scenarios let time reach.
NavMaxNowMs == 1500
\* Last clock value (ms since boot) the sample-cycle scenarios let time reach.
CycleMaxNowMs == 4000
\* SpecMailbox: one edge inside the debounce window of boot, one after it.
MailboxMaxNowMs == 500
\* The clock's last value in the specification of the indicator: one sample cycle.
IndicatorMaxNowMs == 2000

\* Clock advances offered to the navigation scenarios (ms).
NavTicks == {250, 500}
MailboxTicks == {500}
\* Clock advances offered to the sample-cycle scenarios (ms).
CycleTicks == {2000}

(***************************************************************************)
(* Program constants                                                       *)
(***************************************************************************)
BUTTON_A == 5
BUTTON_B == 6
DEBOUNCE_MS == 500
\* Period of the sample cycle, main line 301.
SAMPLE_PERIOD_MS == 2000
\* sizeof(char *) on the RP2040 of the pico_w board the build targets.
PointerSize == 4
\* now - since in uint32_t arithmetic.  The millisecond clock is monotonic and
\* stays below 2^32 ms (49.7 days) in every run of the model, so since <= now
\* and the difference never wraps.
ElapsedMs(now, since) == now - since
\* sizeof(request_buffer), sizeof(buffer) in parse_post_data, sizeof(json_payload).
REQUEST_BUFFER_SIZE == 1024
POST_BUFFER_SIZE == 512
NAV_PAYLOAD_SIZE == 128
CONFIG_PAYLOAD_SIZE == 512
ESTADO_PAYLOAD_SIZE == 128
FINAL_CONTENT_SIZE == 4096
\* send_full_response makes five send_chunk calls, lines 472-476.
MaxChunks == 5

NULL == "NULL"
\* A pointer that is not the address of any string of the program.
WILD == "<wild>"

G_PAGES == <<"/", "/config", "/temperatura", "/umidade", "/pressao", "/altitude">>
\* const int G_NUM_PAGES = sizeof(G_PAGES): the size in bytes of the array of six
\* pointers, not its element count.
G_NUM_PAGES == Len(G_PAGES) * PointerSize

\* What a read of G_PAGES[i] yields.  Past the sixth element the read is out
\* of bounds: whatever word follows the array, taken as a pointer.
OutOfBoundsWords == {NULL, WILD}
PageWordAt(i) ==
    IF i \in 0..(Len(G_PAGES) - 1) THEN {G_PAGES[i + 1]} ELSE OutOfBoundsWords

Buttons == {BUTTON_A, BUTTON_B}

ConfigKeys ==
    <<"temp_offset", "temp_min", "temp_max", "umid_offset", "umid_min", "umid_max",
      "press_offset", "press_min", "press_max", "alt_offset", "alt_min", "alt_max">>
Metrics == <<"temperatura", "umidade", "pressao", "altitude">>

\* Initial values of the twelve configuration globals, lines 70-73.
DefaultConfig ==
    [ temp_offset |-> 0, temp_min |-> 10000, temp_max |-> 40000,
      umid_offset |-> 0, umid_min |-> 60000, umid_max |-> 85000,
      press_offset |-> 0, press_min |-> 85000, press_max |-> 105000,
      alt_offset |-> 0, alt_min |-> 800000, alt_max |-> 900000 ]
\* Initial values of the four reading globals, lines 76-79.
DefaultReading ==
    [ temperatura |-> 0, umidade |-> 0, pressao |-> 0, altitude |-> 0 ]

(***************************************************************************)
(* String literals of the program                                          *)
(***************************************************************************)
GET_NAVIGATE ==
    <<"G","E","T"," ","/","n","a","v","i","g","a","t","e"," ">>
POST_CONFIG ==
    <<"P","O","S","T"," ","/","c","o","n","f","i","g"," ">>
GET_GETCONFIG ==
    <<"G","E","T"," ","/","g","e","t","c","o","n","f","i","g"," ">>
GET_ESTADO ==
    <<"G","E","T"," ","/","e","s","t","a","d","o"," ">>
GET_CONFIG ==
    <<"G","E","T"," ","/","c","o","n","f","i","g"," ">>
GET_TEMPERATURA ==
    <<"G","E","T"," ","/","t","e","m","p","e","r","a","t","u","r","a"," ">>
GET_UMIDADE ==
    <<"G","E","T"," ","/","u","m","i","d","a","d","e"," ">>
GET_PRESSAO ==
    <<"G","E","T"," ","/","p","r","e","s","s","a","o"," ">>
GET_ALTITUDE ==
    <<"G","E","T"," ","/","a","l","t","i","t","u","d","e"," ">>
CRLFCRLF ==
    <<"\r","\n","\r","\n">>
GOTO_OPEN ==
    <<"{","\"","g","o","t","o","\"",":","\"">>
GOTO_CLOSE ==
    <<"\"","}">>
GOTO_NULL ==
    <<"{","\"","g","o","t","o","\"",":","n","u","l","l","}">>
KeyChars ==
    [ temp_offset |-> <<"t","e","m","p","_","o","f","f","s","e","t">>,
      temp_min |-> <<"t","e","m","p","_","m","i","n">>,
      temp_max |-> <<"t","e","m","p","_","m","a","x">>,
      umid_offset |-> <<"u","m","i","d","_","o","f","f","s","e","t">>,
      umid_min |-> <<"u","m","i","d","_","m","i","n">>,
      umid_max |-> <<"u","m","i","d","_","m","a","x">>,
      press_offset |-> <<"p","r","e","s","s","_","o","f","f","s","e","t">>,
      press_min |-> <<"p","r","e","s","s","_","m","i","n">>,
      press_max |-> <<"p","r","e","s","s","_","m","a","x">>,
      alt_offset |-> <<"a","l","t","_","o","f","f","s","e","t">>,
      alt_min |-> <<"a","l","t","_","m","i","n">>,
      alt_max |-> <<"a","l","t","_","m","a","x">> ]
MetricChars ==
    [ temperatura |-> <<"t","e","m","p","e","r","a","t","u","r","a">>,
      umidade |-> <<"u","m","i","d","a","d","e">>,
      pressao |-> <<"p","r","e","s","s","a","o">>,
      altitude |-> <<"a","l","t","i","t","u","d","e">> ]
\* The characters a pointer points at.  What a NULL or wild pointer points at is
\* not text of the program: "?" stands for those bytes.
CStr(ptr) ==
    CASE ptr = "/" -> <<"/">>
      [] ptr = "/config" -> <<"/","c","o","n","f","i","g">>
      [] ptr = "/temperatura" -> <<"/","t","e","m","p","e","r","a","t","u","r","a">>
      [] ptr = "/umidade" -> <<"/","u","m","i","d","a","d","e">>
      [] ptr = "/pressao" -> <<"/","p","r","e","s","s","a","o">>
      [] ptr = "/altitude" -> <<"/","a","l","t","i","t","u","d","e">>
      [] OTHER -> <<"?">>

(***************************************************************************)
(* C library functions the program calls                                   *)
(***************************************************************************)
Min(S) == CHOOSE x \in S : \A y \in S : x <= y

\* The first n characters of s: strncpy / snprintf / pbuf_copy_partial into a
\* buffer that holds n characters.
Take(s, n) == SubSeq(s, 1, IF Len(s) < n THEN Len(s) ELSE n)
Drop(s, n) == SubSeq(s, n + 1, Len(s))

\* strstr: the position of the first occurrence of needle in haystack, 0 for none.
strstr(haystack, needle) ==
    LET at == { i \in 1..(Len(haystack) - Len(needle) + 1) :
                    \A j \in 1..Len(needle) : haystack[i + j - 1] = needle[j] }
    IN  IF at = {} THEN 0 ELSE Min(at)

\* strchr: the position of the first c in s, 0 for none.
strchr(s, c) ==
    LET at == { i \in 1..Len(s) : s[i] = c }
    IN  IF at = {} THEN 0 ELSE Min(at)

\* The successive results of strtok(buffer, "&"), strtok(NULL, "&"), ...:
\* runs of '&' are skipped, so no token is empty.
RECURSIVE strtok(_)
strtok(s) ==
    IF s = <<>> THEN <<>>
    ELSE IF Head(s) = "&" THEN strtok(Tail(s))
    ELSE LET k == strchr(s, "&")
         IN  IF k = 0 THEN <<s>>
             ELSE <<SubSeq(s, 1, k - 1)>> \o strtok(Drop(s, k))

DigitChars == <<"0","1","2","3","4","5","6","7","8","9">>
isdigit(c) == \E d \in 1..10 : DigitChars[d] = c
isspace(c) == c \in {" ", "\t", "\n", "\r", "\f"}
DigitValue(c) == (CHOOSE d \in 1..10 : DigitChars[d] = c) - 1

\* Length of the longest prefix of s that satisfies the test.
DigitRun(s) ==
    LET stops == { i \in 1..Len(s) : ~isdigit(s[i]) }
    IN  IF stops = {} THEN Len(s) ELSE Min(stops) - 1
SpaceRun(s) ==
    LET stops == { i \in 1..Len(s) : ~isspace(s[i]) }
    IN  IF stops = {} THEN Len(s) ELSE Min(stops) - 1

RECURSIVE DigitsToNat(_)
DigitsToNat(ds) ==
    IF ds = <<>> THEN 0
    ELSE DigitsToNat(SubSeq(ds, 1, Len(ds) - 1)) * 10 + DigitValue(ds[Len(ds)])

\* atof, then the conversion to float: leading white space, an optional sign,
\* digits, an optional '.' and digits; conversion stops at the first character
\* that fits none of these, and text with no digits gives 0.0.  The value is
\* kept to three fractional digits.  (The exponent, hexadecimal and inf/nan
\* forms of strtod need a letter right after the digits or the sign; no
\* request of the model produces one.)
atof(s) ==
    LET t == Drop(s, SpaceRun(s))
        signed == t # <<>> /\ Head(t) \in {"-", "+"}
        negative == t # <<>> /\ Head(t) = "-"
        u == IF signed THEN Tail(t) ELSE t
        nw == DigitRun(u)
        v == Drop(u, nw)
        f == IF v # <<>> /\ Head(v) = "." THEN Tail(v) ELSE <<>>
        nf == DigitRun(f)
        f3 == Take(SubSeq(f, 1, nf) \o <<"0","0","0">>, 3)
        magnitude == IF nw = 0 /\ nf = 0 THEN 0
                     ELSE DigitsToNat(SubSeq(u, 1, nw)) * 1000 + DigitsToNat(f3)
    IN  IF negative THEN 0 - magnitude ELSE magnitude

RECURSIVE NatToChars(_)
NatToChars(n) ==
    IF n < 10 THEN <<DigitChars[n + 1]>>
    ELSE NatToChars(n \div 10) \o <<DigitChars[(n % 10) + 1]>>

\* printf("%.2f") and printf("%.3f") of a float: the value rounded to prec
\* fractional digits, ties to even, as sign, integer digits, '.', prec digits.
FormatFloat(v, prec) ==
    LET a == IF v < 0 THEN 0 - v ELSE v
        unit == IF prec = 2 THEN 10 ELSE 1
        q == a \div unit
        r == a % unit
        rounded == IF 2 * r > unit \/ (2 * r = unit /\ q % 2 = 1) THEN q + 1 ELSE q
        scale == IF prec = 2 THEN 100 ELSE 1000
        fraction == NatToChars(scale + (rounded % scale))
    IN  (IF v < 0 THEN <<"-">> ELSE <<>>)
        \o NatToChars(rounded \div scale) \o <<".">> \o Tail(fraction)

(***************************************************************************)
(* State                                                                   *)
(***************************************************************************)
VARIABLES
    clock,                  \* to_ms_since_boot(get_absolute_time())
    \* main
    main_pc,                \* the statement main executes next
    last_sensor_read_ms,    \* main's local of that name
    now_ms,                 \* main's local of that name
    sample,                 \* data_aht.temperature, data_aht.humidity, pressure_pa
    em_alerta,              \* main's local of that name
    matrix,                 \* the pattern last drawn on the LED matrix
    tones,                  \* the calls of tocar_buzzer made so far, in order
    \* navigation globals
    g_current_page_index,
    g_target_page,
    g_last_press_time,
    \* configuration and reading globals
    g_config,               \* g_temp_offset ... g_alt_max, by name
    g_reading,              \* g_temperatura, g_umidade, g_pressao, g_altitude
    \* HTTP server
    listening,              \* tcp_accept registered by start_http_server
    refuse_chunk,           \* which tcp_write of the next response the stack refuses (0: none)
    pcb,                    \* state of the connection the receive callback last ran on
    conn_pc,                \* the statement tcp_server_recv executes next
    p,                      \* payload of the pbuf handed to tcp_server_recv
    request_buffer,         \* the stack bytes of request_buffer up to the first NUL
    nav_seen,               \* g_target_page as loaded by the test of line 556
    json_payload,           \* json_payload of the /navigate branch
    response,               \* what the callback handed to tcp_write on its connection
    \* history (not program state)
    last_irq,               \* the last gpio_callback: its pin and whether it passed the debounce
    owed,                   \* the latest accepted edge's target was read into no payload yet
    edge_since_test,        \* an edge was accepted after line 556 of the running callback
    owed_at_recv,           \* owed, when the running callback was entered
    edge_since_recv,        \* an edge was accepted since the running callback was entered
    deliveries,             \* non-null /navigate replies since the latest accepted edge
    lost,                   \* line 559 erased the latest accepted edge's unread target
    cycle,                  \* number of sample cycles started
    reading_cycle,          \* for each reading, the cycle that wrote it
    eval_configs,           \* the values g_config had at the comparisons of lines 321-325
    steps,                  \* the steps made so far of the sample cycle last started
    last_handler,           \* the handler the last completed callback ran
    posted                  \* the last POST /config: its body as sent, g_config before it

nav_vars == <<g_current_page_index, g_target_page, g_last_press_time>>
main_vars == <<main_pc, last_sensor_read_ms, now_ms, sample, em_alerta, matrix>>
data_vars == <<g_config, g_reading>>
conn_vars == <<listening, refuse_chunk, pcb, conn_pc, p, request_buffer, nav_seen,
               json_payload, response>>
nav_history == <<last_irq, owed, edge_since_test, owed_at_recv, edge_since_recv,
                 deliveries, lost>>
cycle_history == <<cycle, reading_cycle, eval_configs, steps>>
vars == <<clock, tones, main_vars, nav_vars, data_vars, conn_vars, nav_history,
          cycle_history, last_handler, posted>>

NoResponse ==
    [type |-> "none", status |-> 0, content_length |-> 0, body |-> <<>>,
     header_written |-> FALSE, body_written |-> 0]
NoSample == [temperature |-> 0, humidity |-> 0, pressure_pa |-> 0]

Init ==
    /\ clock = 0
    /\ main_pc = "wifi_connect"
    /\ last_sensor_read_ms = 0
    /\ now_ms = 0
    /\ sample = NoSample
    /\ em_alerta = FALSE
    /\ matrix = "off"
    /\ tones = <<>>
    /\ g_current_page_index = 0
    /\ g_target_page = NULL
    /\ g_last_press_time = 0
    /\ g_config = DefaultConfig
    /\ g_reading = DefaultReading
    /\ listening = FALSE
    /\ refuse_chunk = 0
    /\ pcb = "CLOSED"
    /\ conn_pc = "idle"
    /\ p = <<>>
    /\ request_buffer = <<>>
    /\ nav_seen = NULL
    /\ json_payload = <<>>
    /\ response = NoResponse
    /\ last_irq = [gpio |-> 0, accepted |-> FALSE]
    /\ owed = FALSE
    /\ edge_since_test = FALSE
    /\ owed_at_recv = FALSE
    /\ edge_since_recv = FALSE
    /\ deliveries = 0
    /\ lost = FALSE
    /\ cycle = 0
    /\ reading_cycle = [temperatura |-> 0, umidade |-> 0, pressao |-> 0, altitude |-> 0]
    /\ eval_configs = {}
    /\ steps = <<>>
    /\ last_handler = "none"
    /\ posted = [body |-> <<>>, before |-> DefaultConfig]

(***************************************************************************)
(* Time                                                                    *)
(***************************************************************************)
\* The clock advances by d ms.  A callback runs to completion well within one
\* clock step of the model, so time is advanced between callbacks only.
Tick(d, max) ==
    /\ conn_pc = "idle"
    /\ clock + d <= max
    /\ clock' = clock + d
    /\ UNCHANGED <<tones, main_vars, nav_vars, data_vars, conn_vars, nav_history,
                   cycle_history, last_handler, posted>>

(***************************************************************************)
(* gpio_callback: the falling-edge interrupt of buttons A and B            *)
(***************************************************************************)
\* The interrupt is enabled by setup(), before anything else in main, and
\* preempts main and the lwIP callback alike; nothing preempts it.
gpio_callback_stamps_first(gpio) ==
    LET now == clock
        accepted == ElapsedMs(now, g_last_press_time) >= DEBOUNCE_MS
    IN  /\ g_last_press_time' = now
        /\ last_irq' = [gpio |-> gpio, accepted |-> accepted]
        /\ IF accepted
           THEN LET index == IF gpio = BUTTON_A
                             THEN (IF g_current_page_index - 1 < 0
                                   THEN G_NUM_PAGES - 1
                                   ELSE g_current_page_index - 1)
                             ELSE IF gpio = BUTTON_B
                             THEN (IF g_current_page_index + 1 >= G_NUM_PAGES
                                   THEN 0
                                   ELSE g_current_page_index + 1)
                             ELSE g_current_page_index
                IN  /\ g_current_page_index' = index
                    /\ \E word \in PageWordAt(index) : g_target_page' = word
                    /\ owed' = TRUE
                    /\ edge_since_test' = TRUE
                    /\ edge_since_recv' = TRUE
                    /\ deliveries' = 0
                    /\ lost' = FALSE
           ELSE UNCHANGED <<g_current_page_index, g_target_page, owed,
                            edge_since_test, edge_since_recv, deliveries, lost>>
        /\ UNCHANGED <<clock, tones, main_vars, data_vars, conn_vars, owed_at_recv,
                       cycle_history, last_handler, posted>>

\* gpio_callback with the stores of lines 420-434 made before the debounce test of
\* line 414.
gpio_callback_stores_before_debounce(gpio) ==
    LET now == clock
        accepted == ElapsedMs(now, g_last_press_time) >= DEBOUNCE_MS
        index == IF gpio = BUTTON_A
                 THEN (IF g_current_page_index - 1 < 0
                       THEN G_NUM_PAGES - 1
                       ELSE g_current_page_index - 1)
                 ELSE IF gpio = BUTTON_B
                 THEN (IF g_current_page_index + 1 >= G_NUM_PAGES
                       THEN 0
                       ELSE g_current_page_index + 1)
                 ELSE g_current_page_index
    IN  /\ g_current_page_index' = index
        /\ \E word \in PageWordAt(index) : g_target_page' = word
        /\ g_last_press_time' = IF accepted THEN now ELSE g_last_press_time
        /\ last_irq' = [gpio |-> gpio, accepted |-> accepted]
        /\ owed' = (accepted \/ owed)
        /\ edge_since_test' = (accepted \/ edge_since_test)
        /\ edge_since_recv' = (accepted \/ edge_since_recv)
        /\ deliveries' = IF accepted THEN 0 ELSE deliveries
        /\ lost' = (~accepted /\ lost)
        /\ UNCHANGED <<clock, tones, main_vars, data_vars, conn_vars, owed_at_recv,
                       cycle_history, last_handler, posted>>

\* gpio_callback with a debounce window per button: the test of line 414 is made
\* only for an edge of the button whose edge came last.
gpio_callback_per_button(gpio) ==
    LET now == clock
    IN  IF ElapsedMs(now, g_last_press_time) < DEBOUNCE_MS /\ last_irq.gpio = gpio
        THEN /\ last_irq' = [gpio |-> gpio, accepted |-> FALSE]
             /\ UNCHANGED <<clock, tones, main_vars, nav_vars, data_vars, conn_vars, owed,
                            edge_since_test, owed_at_recv, edge_since_recv,
                            deliveries, lost, cycle_history, last_handler, posted>>
        ELSE LET index == IF gpio = BUTTON_A
                          THEN (IF g_current_page_index - 1 < 0
                                THEN G_NUM_PAGES - 1
                                ELSE g_current_page_index - 1)
                          ELSE IF gpio = BUTTON_B
                          THEN (IF g_current_page_index + 1 >= G_NUM_PAGES
                                THEN 0
                                ELSE g_current_page_index + 1)
                          ELSE g_current_page_index
             IN  /\ g_last_press_time' = now
                 /\ g_current_page_index' = index
                 /\ \E word \in PageWordAt(index) : g_target_page' = word
                 /\ last_irq' = [gpio |-> gpio, accepted |-> TRUE]
                 /\ owed' = TRUE
                 /\ edge_since_test' = TRUE
                 /\ edge_since_recv' = TRUE
                 /\ deliveries' = 0
                 /\ lost' = FALSE
                 /\ UNCHANGED <<clock, tones, main_vars, data_vars, conn_vars, owed_at_recv,
                                cycle_history, last_handler, posted>>

gpio_callback(gpio) ==
    LET now == clock
    IN  IF ElapsedMs(now, g_last_press_time) < DEBOUNCE_MS
        THEN \* line 415: return
             /\ last_irq' = [gpio |-> gpio, accepted |-> FALSE]
             /\ UNCHANGED <<clock, tones, main_vars, nav_vars, data_vars, conn_vars, owed,
                            edge_since_test, owed_at_recv, edge_since_recv,
                            deliveries, lost, cycle_history, last_handler, posted>>
        ELSE LET index == IF gpio = BUTTON_A
                          THEN (IF g_current_page_index - 1 < 0
                                THEN G_NUM_PAGES - 1
                                ELSE g_current_page_index - 1)
                          ELSE IF gpio = BUTTON_B
                          THEN (IF g_current_page_index + 1 >= G_NUM_PAGES
                                THEN 0
                                ELSE g_current_page_index + 1)
                          ELSE g_current_page_index
             IN  /\ g_last_press_time' = now
                 /\ g_current_page_index' = index
                 /\ \E word \in PageWordAt(index) : g_target_page' = word
                 /\ last_irq' = [gpio |-> gpio, accepted |-> TRUE]
                 /\ owed' = TRUE
                 /\ edge_since_test' = TRUE
                 /\ edge_since_recv' = TRUE
                 /\ deliveries' = 0
                 /\ lost' = FALSE
                 /\ UNCHANGED <<clock, tones, main_vars, data_vars, conn_vars, owed_at_recv,
                                cycle_history, last_handler, posted>>

\* An edge on either button, at any moment.
ButtonEdge == \E gpio \in Buttons : gpio_callback(gpio)

(***************************************************************************)
(* main: start-up                                                          *)
(***************************************************************************)
\* tocar_buzzer, lines 392-406: a square wave on the buzzer pin, (duracao * 1000) /
\* periodo periods of 2 * periodo microseconds each, timed by sleep_us; nothing
\* for a frequency of 0.
tocar_buzzer(freq, duracao) ==
    IF freq = 0
    THEN <<>>
    ELSE LET periodo == 1000000 \div (freq * 2)
             ciclos == (duracao * 1000) \div periodo
         IN  <<[freq |-> freq, duracao |-> duracao, ciclos |-> ciclos]>>

\* Line 279: the tone of a failed connection.
FAILURE_TONE == tocar_buzzer(300, 1000)
\* Lines 286-288: the two tones of a connection made.
CONNECTED_TONES == tocar_buzzer(1200, 100) \o tocar_buzzer(1500, 100)

\* Lines 275-288 with the return of line 280 left out: main goes on after the
\* failure tone.
wifi_connect_goes_on ==
    /\ main_pc = "wifi_connect"
    /\ conn_pc = "idle"
    /\ \E connected \in BOOLEAN :
           tones' = tones \o (IF connected THEN CONNECTED_TONES ELSE FAILURE_TONE)
    /\ main_pc' = "start_http_server"
    /\ UNCHANGED <<clock, last_sensor_read_ms, now_ms, sample, em_alerta, matrix,
                   nav_vars, data_vars, conn_vars, nav_history, cycle_history,
                   last_handler, posted>>

\* Lines 275-288: the Wi-Fi connection attempt; on failure the failure tone is
\* played and main returns, otherwise the two tones of success are played.
wifi_connect ==
    /\ main_pc = "wifi_connect"
    /\ conn_pc = "idle"
    /\ \E connected \in BOOLEAN :
           IF connected
           THEN /\ tones' = tones \o CONNECTED_TONES
                /\ main_pc' = "start_http_server"
           ELSE /\ tones' = tones \o FAILURE_TONE
                /\ main_pc' = "exited"
    /\ UNCHANGED <<clock, last_sensor_read_ms, now_ms, sample, em_alerta, matrix,
                   nav_vars, data_vars, conn_vars, nav_history, cycle_history,
                   last_handler, posted>>

\* Lines 631-649: tcp_new / tcp_bind may fail, and then nothing listens.
start_http_server ==
    /\ main_pc = "start_http_server"
    /\ conn_pc = "idle"
    /\ \E bound \in BOOLEAN : listening' = bound
    /\ main_pc' = "poll"
    /\ UNCHANGED <<clock, tones, last_sensor_read_ms, now_ms, sample, em_alerta, matrix,
                   nav_vars, data_vars, refuse_chunk, pcb, conn_pc, p, request_buffer,
                   nav_seen,
                   json_payload, response, nav_history, cycle_history, last_handler, posted>>

\* Samples the sensor drivers may deliver: data_aht.temperature (degrees C),
\* data_aht.humidity (%), and the pressure bmp280_convert_pressure returns (Pa).
TemperatureSamples == {25000, 50000}
HumiditySamples == {70000}
PressureSamples == {90000000}

\* calculate_altitude, lines 441-444: 44330 * (1 - (pressure_pa / 101325) ^ 0.1903),
\* tabulated for the pressures the model samples.
calculate_altitude(pressure_pa) ==
    CASE pressure_pa = 101325000 -> 0
      [] pressure_pa = 90000000 -> 988672

(***************************************************************************)
(* main: the poll loop, lines 294-342                                      *)
(***************************************************************************)
\* main runs in thread mode: it makes a step only while no callback is running.
MainRuns(pc) == main_pc = pc /\ conn_pc = "idle"

\* Lines 297-303.  cyw43_arch_poll() does nothing in the threadsafe_background
\* build: the callbacks are run from the interrupt, not from here.
\* Lines 297-303 without the test of line 301: every iteration starts a cycle.
main_poll_every_iteration ==
    /\ MainRuns("poll")
    /\ now_ms' = clock
    /\ last_sensor_read_ms' = clock
    /\ main_pc' = "acquire"
    /\ steps' = <<"start">>
    /\ UNCHANGED <<clock, tones, sample, em_alerta, matrix, nav_vars, data_vars, conn_vars,
                   nav_history, cycle, reading_cycle, eval_configs, last_handler, posted>>

main_poll ==
    /\ MainRuns("poll")
    /\ now_ms' = clock
    /\ IF ElapsedMs(clock, last_sensor_read_ms) >= SAMPLE_PERIOD_MS
       THEN /\ last_sensor_read_ms' = clock
            /\ main_pc' = "acquire"
            /\ steps' = <<"start">>
       ELSE /\ main_pc' = "sleep"
            /\ UNCHANGED <<last_sensor_read_ms, steps>>
    /\ UNCHANGED <<clock, tones, sample, em_alerta, matrix, nav_vars, data_vars, conn_vars,
                   nav_history, cycle, reading_cycle, eval_configs, last_handler, posted>>

\* Lines 306-310: the two sensors are read into locals.
main_acquire ==
    /\ MainRuns("acquire")
    /\ \E t \in TemperatureSamples, h \in HumiditySamples, pa \in PressureSamples :
           sample' = [temperature |-> t, humidity |-> h, pressure_pa |-> pa]
    /\ cycle' = cycle + 1
    /\ steps' = Append(steps, "acquire")
    /\ main_pc' = "write_temperatura"
    /\ UNCHANGED <<clock, tones, last_sensor_read_ms, now_ms, em_alerta, matrix, nav_vars,
                   data_vars, conn_vars, nav_history, reading_cycle, eval_configs,
                   last_handler, posted>>

\* Lines 313-316 with the altitude of line 316 computed from the calibrated
\* pressure of line 315.
CalibratedValue_altitude_of_reading(metric) ==
    CASE metric = "temperatura" -> sample.temperature + g_config.temp_offset
      [] metric = "umidade" -> sample.humidity + g_config.umid_offset
      [] metric = "pressao" -> (sample.pressure_pa \div 1000) + g_config.press_offset
      [] metric = "altitude" ->
             calculate_altitude(((sample.pressure_pa \div 1000) + g_config.press_offset)
                                * 1000)
             + g_config.alt_offset

\* The value each of lines 313-316 stores.
CalibratedValue(metric) ==
    CASE metric = "temperatura" -> sample.temperature + g_config.temp_offset
      [] metric = "umidade" -> sample.humidity + g_config.umid_offset
      [] metric = "pressao" -> (sample.pressure_pa \div 1000) + g_config.press_offset
      [] metric = "altitude" -> calculate_altitude(sample.pressure_pa) + g_config.alt_offset

\* One of lines 313-316: a reading global is assigned.
main_write(metric, next_pc) ==
    /\ MainRuns("write_" \o metric)
    /\ g_reading' = [g_reading EXCEPT ![metric] = CalibratedValue(metric)]
    /\ reading_cycle' = [reading_cycle EXCEPT ![metric] = cycle]
    /\ steps' = Append(steps, metric)
    /\ main_pc' = next_pc
    /\ UNCHANGED <<clock, tones, last_sensor_read_ms, now_ms, sample, em_alerta, matrix,
                   nav_vars, g_config, conn_vars, nav_history, cycle, eval_configs,
                   last_handler, posted>>

main_write_temperatura == main_write("temperatura", "write_umidade")
main_write_umidade == main_write("umidade", "write_pressao")
main_write_pressao == main_write("pressao", "write_altitude")
main_write_altitude == main_write("altitude", "test_temp_max")

\* One comparison of lines 319-328.  Each operand is a volatile global read when
\* the comparison is made; a true comparison sets em_alerta and skips the rest
\* of its || expression.
main_test(pc, exceeded, first, pc_if_true, pc_if_false) ==
    /\ MainRuns(pc)
    /\ em_alerta' = IF exceeded THEN TRUE ELSE IF first THEN FALSE ELSE em_alerta
    /\ main_pc' = IF exceeded THEN pc_if_true ELSE pc_if_false
    /\ eval_configs' = IF first THEN {g_config} ELSE eval_configs \cup {g_config}
    /\ steps' = IF first THEN Append(steps, "evaluate") ELSE steps
    /\ UNCHANGED <<clock, tones, last_sensor_read_ms, now_ms, sample, matrix, nav_vars,
                   data_vars, conn_vars, nav_history, cycle, reading_cycle,
                   last_handler, posted>>

main_test_temp_max ==
    main_test("test_temp_max", g_reading.temperatura > g_config.temp_max, TRUE,
              "test_umid_max", "test_temp_min")
main_test_temp_min ==
    main_test("test_temp_min", g_reading.temperatura < g_config.temp_min, FALSE,
              "test_umid_max", "test_umid_max")
main_test_umid_max ==
    main_test("test_umid_max", g_reading.umidade > g_config.umid_max, FALSE,
              "render", "test_umid_min")
main_test_umid_min ==
    main_test("test_umid_min", g_reading.umidade < g_config.umid_min, FALSE,
              "render", "render")

\* Lines 330-339 with line 338 alone: the matrix is blanked whatever em_alerta is.
main_render_always_blank ==
    /\ MainRuns("render")
    /\ matrix' = "matrizVazia"
    /\ main_pc' = "sleep"
    /\ steps' = Append(steps, "render")
    /\ UNCHANGED <<clock, tones, last_sensor_read_ms, now_ms, sample, em_alerta, nav_vars,
                   data_vars, conn_vars, nav_history, cycle, reading_cycle, eval_configs,
                   last_handler, posted>>

\* Lines 330-339: the matrix shows alerta1 when em_alerta, else matrizVazia.
main_render ==
    /\ MainRuns("render")
    /\ matrix' = IF em_alerta THEN "alerta1" ELSE "matrizVazia"
    /\ main_pc' = "sleep"
    /\ steps' = Append(steps, "render")
    /\ UNCHANGED <<clock, tones, last_sensor_read_ms, now_ms, sample, em_alerta, nav_vars,
                   data_vars, conn_vars, nav_history, cycle, reading_cycle, eval_configs,
                   last_handler, posted>>

\* Line 341.
main_sleep ==
    /\ MainRuns("sleep")
    /\ main_pc' = "poll"
    /\ UNCHANGED <<clock, tones, last_sensor_read_ms, now_ms, sample, em_alerta, matrix,
                   nav_vars, data_vars, conn_vars, nav_history, cycle_history,
                   last_handler, posted>>

(***************************************************************************)
(* tcp_server_recv: the lwIP receive callback, lines 540-621               *)
(***************************************************************************)
\* request_buffer after lines 548-550.  pbuf_copy_partial stores the payload's
\* first bytes and nothing after them, and line 550 terminates only the last
\* byte of the array: the bytes between are uninitialised stack, given here.
CopyPartial(payload, stack_bytes) ==
    LET copied == Take(payload, REQUEST_BUFFER_SIZE - 1)
    IN  Take(copied \o Drop(stack_bytes, Len(copied)), REQUEST_BUFFER_SIZE - 1)

\* What the stack may hold where request_buffer is placed: the bytes the
\* previous callback left there, or zeros written by whatever ran in between.
StackBytes == {request_buffer, <<>>}

\* Lines 540-551 run for a connection although line 647 registered no accept
\* callback.
tcp_server_recv_copy_unbound(payload) ==
    /\ conn_pc = "idle"
    /\ pcb' = "ESTABLISHED"
    /\ p' = payload
    /\ response' = NoResponse
    /\ \E stack_bytes \in StackBytes :
           request_buffer' = CopyPartial(payload, stack_bytes)
    /\ conn_pc' = "dispatch"
    /\ owed_at_recv' = owed
    /\ edge_since_recv' = FALSE
    /\ UNCHANGED <<clock, tones, main_vars, nav_vars, data_vars, listening, refuse_chunk,
                   nav_seen, json_payload, last_irq, owed, edge_since_test,
                   deliveries, lost, cycle_history, last_handler, posted>>

\* Lines 540-551, for a pbuf that carries data: the request is copied.
tcp_server_recv_copy(payload) ==
    /\ listening
    /\ conn_pc = "idle"
    /\ pcb' = "ESTABLISHED"
    /\ p' = payload
    /\ response' = NoResponse
    /\ \E stack_bytes \in StackBytes :
           request_buffer' = CopyPartial(payload, stack_bytes)
    /\ conn_pc' = "dispatch"
    /\ owed_at_recv' = owed
    /\ edge_since_recv' = FALSE
    /\ UNCHANGED <<clock, tones, main_vars, nav_vars, data_vars, listening, refuse_chunk,
                   nav_seen, json_payload, last_irq, owed, edge_since_test,
                   deliveries, lost, cycle_history, last_handler, posted>>

\* Lines 542-546: the peer closed before it sent anything, the callback is
\* handed no pbuf and closes the connection.
tcp_server_recv_null ==
    /\ listening
    /\ conn_pc = "idle"
    /\ pcb' = "CLOSED"
    /\ response' = NoResponse
    /\ last_handler' = "none"
    /\ UNCHANGED <<clock, tones, main_vars, nav_vars, data_vars, listening, refuse_chunk,
                   conn_pc, p, request_buffer, nav_seen, json_payload, nav_history,
                   cycle_history, posted>>

\* The stack's send memory: between callbacks it may come to refuse the k-th
\* tcp_write of the next response, or to accept them all again.
tcp_write_refuses(k) ==
    /\ conn_pc = "idle"
    /\ refuse_chunk' = k
    /\ UNCHANGED <<clock, tones, main_vars, nav_vars, data_vars, listening, pcb, conn_pc, p,
                   request_buffer, nav_seen, json_payload, response, nav_history,
                   cycle_history, last_handler, posted>>

\* The if / else-if chain of lines 553-616: the branch taken for a buffer.
Route(buffer) ==
    IF strstr(buffer, GET_NAVIGATE) # 0 THEN "navigate"
    ELSE IF strstr(buffer, POST_CONFIG) # 0 THEN "post_config"
    ELSE IF strstr(buffer, GET_GETCONFIG) # 0 THEN "getconfig"
    ELSE IF strstr(buffer, GET_ESTADO) # 0 THEN "estado"
    ELSE IF strstr(buffer, GET_CONFIG) # 0 THEN "HTML_CONTENT_CONFIG"
    ELSE IF \/ strstr(buffer, GET_TEMPERATURA) # 0
            \/ strstr(buffer, GET_UMIDADE) # 0
            \/ strstr(buffer, GET_PRESSAO) # 0
            \/ strstr(buffer, GET_ALTITUDE) # 0 THEN "HTML_CONTENT_CHART_PAGE"
    ELSE "HTML_CONTENT_INICIO"

Dispatched(branch) == conn_pc = "dispatch" /\ Route(request_buffer) = branch

\* tcp_write, as send_chunk calls it at line 449: the k-th write of a response
\* is accepted unless the stack refuses it (ERR_MEM); send_chunk's result is
\* ignored by its callers.
Accepted(k) == refuse_chunk # k

\* send_json_response, lines 481-490: the header with strlen(payload), then the
\* payload.
send_json_response(payload) ==
    [type |-> "json", status |-> 200, content_length |-> Len(payload), body |-> payload,
     header_written |-> Accepted(1),
     body_written |-> IF Accepted(2) THEN Len(payload) ELSE 0]

\* Lines 569-574: the body is what follows the first blank line of the buffer.
PostBody(buffer) ==
    LET blank == strstr(buffer, CRLFCRLF)
    IN  IF blank = 0 THEN <<>> ELSE Drop(buffer, blank + 3)

\* Lines 618-619 without line 619: the pbuf is freed, the connection stays open.
CloseAfter_keeps_alive(handler) ==
    /\ p' = <<>>
    /\ pcb' = pcb
    /\ conn_pc' = "idle"
    /\ last_handler' = handler
    /\ posted' = IF handler = "post_config"
                 THEN [body |-> PostBody(p), before |-> g_config]
                 ELSE posted

\* Lines 618-620, after a handler: the pbuf is freed and the connection closed.
CloseAfter(handler) ==
    /\ p' = <<>>
    /\ pcb' = "CLOSED"
    /\ conn_pc' = "idle"
    /\ last_handler' = handler
    /\ posted' = IF handler = "post_config"
                 THEN [body |-> PostBody(p), before |-> g_config]
                 ELSE posted

\* ---- GET /navigate, lines 553-566 ----
\* Line 556: the test of g_target_page.
navigate_test ==
    /\ Dispatched("navigate")
    /\ nav_seen' = g_target_page
    /\ edge_since_test' = FALSE
    /\ IF g_target_page # NULL
       THEN /\ conn_pc' = "nav_format"
            /\ UNCHANGED json_payload
       ELSE /\ json_payload' = GOTO_NULL
            /\ conn_pc' = "nav_send"
    /\ UNCHANGED <<clock, tones, main_vars, nav_vars, data_vars, listening, refuse_chunk, p, pcb, request_buffer,
                   response, last_irq, owed, owed_at_recv, edge_since_recv, deliveries, lost,
                   cycle_history, last_handler, posted>>

\* Line 558.  g_target_page is declared "volatile const char *": the characters
\* are volatile, the pointer is not, so the compiler may pass snprintf the value
\* the test loaded or load the global again.
navigate_format ==
    /\ conn_pc = "nav_format"
    /\ \E reload \in BOOLEAN :
           LET target == IF reload THEN g_target_page ELSE nav_seen
           IN  /\ json_payload' =
                      Take(GOTO_OPEN \o CStr(target) \o GOTO_CLOSE, NAV_PAYLOAD_SIZE - 1)
               /\ owed' = IF reload THEN FALSE ELSE edge_since_test
    /\ conn_pc' = "nav_clear"
    /\ UNCHANGED <<clock, tones, main_vars, nav_vars, data_vars, listening, refuse_chunk, p, pcb, request_buffer,
                   nav_seen, response, last_irq, edge_since_test, owed_at_recv, edge_since_recv,
                   deliveries, lost, cycle_history, last_handler, posted>>

\* Line 559 without its store.
navigate_clear_forgotten ==
    /\ conn_pc = "nav_clear"
    /\ lost' = owed
    /\ conn_pc' = "nav_send"
    /\ UNCHANGED <<clock, tones, main_vars, nav_vars, data_vars, listening, refuse_chunk, p, pcb, request_buffer,
                   nav_seen, json_payload, response, last_irq, owed, edge_since_test,
                   owed_at_recv, edge_since_recv, deliveries, cycle_history, last_handler, posted>>

\* Line 559: g_target_page = NULL.
navigate_clear ==
    /\ conn_pc = "nav_clear"
    /\ g_target_page' = NULL
    /\ lost' = owed
    /\ conn_pc' = "nav_send"
    /\ UNCHANGED <<clock, tones, main_vars, g_current_page_index, g_last_press_time,
                   data_vars, listening, refuse_chunk, p, pcb, request_buffer, nav_seen, json_payload,
                   response, last_irq, owed, edge_since_test, owed_at_recv, edge_since_recv,
                   deliveries, cycle_history, last_handler, posted>>

\* Lines 565 and 618-620.
navigate_send ==
    /\ conn_pc = "nav_send"
    /\ response' = send_json_response(json_payload)
    /\ deliveries' = IF json_payload = GOTO_NULL \/ deliveries = 2 THEN deliveries
                     ELSE deliveries + 1
    /\ CloseAfter("navigate")
    /\ UNCHANGED <<clock, tones, main_vars, nav_vars, data_vars, listening, refuse_chunk, request_buffer,
                   nav_seen, json_payload, last_irq, owed, edge_since_test,
                   owed_at_recv, edge_since_recv, lost, cycle_history>>

\* ---- POST /config, lines 567-578 ----
\* The assignments of lines 510-533 for one token of the body.
ApplyField(config, token) ==
    LET eq == strchr(token, "=")
        key == SubSeq(token, 1, eq - 1)
        value == atof(Drop(token, eq))
        named == { i \in 1..Len(ConfigKeys) : KeyChars[ConfigKeys[i]] = key }
    IN  IF eq = 0 \/ named = {} THEN config
        ELSE [config EXCEPT ![ConfigKeys[Min(named)]] = value]

RECURSIVE ApplyFields(_, _)
ApplyFields(config, tokens) ==
    IF tokens = <<>> THEN config
    ELSE ApplyFields(ApplyField(config, Head(tokens)), Tail(tokens))

\* parse_post_data, lines 493-537: the configuration it leaves.
parse_post_data(config, data) ==
    ApplyFields(config, strtok(Take(data, POST_BUFFER_SIZE - 1)))

\* Lines 575-577: the header-only reply, "HTTP/1.1 200 OK" with Content-Length 0.
EmptyOk ==
    [type |-> "empty", status |-> 200, content_length |-> 0, body |-> <<>>,
     header_written |-> TRUE, body_written |-> 0]

\* Lines 567-578 followed by the evaluation and the render of lines 319-339: the
\* new limits are shown on the matrix at once.
handle_post_config_redraws ==
    /\ Dispatched("post_config")
    /\ g_config' = IF strstr(request_buffer, CRLFCRLF) # 0
                   THEN parse_post_data(g_config, PostBody(request_buffer))
                   ELSE g_config
    /\ matrix' = IF \/ g_reading.temperatura > g_config'.temp_max
                    \/ g_reading.temperatura < g_config'.temp_min
                    \/ g_reading.umidade > g_config'.umid_max
                    \/ g_reading.umidade < g_config'.umid_min
                 THEN "alerta1" ELSE "matrizVazia"
    /\ response' = [EmptyOk EXCEPT !.header_written = Accepted(1)]
    /\ CloseAfter("post_config")
    /\ UNCHANGED <<clock, tones, main_pc, last_sensor_read_ms, now_ms, sample, em_alerta,
                   nav_vars, g_reading, listening, refuse_chunk, request_buffer,
                   nav_seen, json_payload, nav_history, cycle_history>>

handle_post_config ==
    /\ Dispatched("post_config")
    /\ g_config' = IF strstr(request_buffer, CRLFCRLF) # 0
                   THEN parse_post_data(g_config, PostBody(request_buffer))
                   ELSE g_config
    /\ response' = [EmptyOk EXCEPT !.header_written = Accepted(1)]
    /\ CloseAfter("post_config")
    /\ UNCHANGED <<clock, tones, main_vars, nav_vars, g_reading, listening, refuse_chunk, request_buffer,
                   nav_seen, json_payload, nav_history, cycle_history>>

\* ---- GET /getconfig, lines 579-590 ----
Quoted(name) == <<"\"">> \o name \o <<"\"", ":">>

RECURSIVE JsonFields(_, _, _)
\* "key":value,"key":value ... for keys i.. of names
JsonFields(names, chars, values) ==
    IF names = <<>> THEN <<>>
    ELSE Quoted(chars[Head(names)]) \o values[Head(names)]
         \o (IF Len(names) > 1 THEN <<",">> ELSE <<>>)
         \o JsonFields(Tail(names), chars, values)

getconfig_payload(config) ==
    Take(<<"{">>
         \o JsonFields(ConfigKeys, KeyChars,
                       [k \in DOMAIN config |-> FormatFloat(config[k], 2)])
         \o <<"}">>,
         CONFIG_PAYLOAD_SIZE - 1)

handle_getconfig ==
    /\ Dispatched("getconfig")
    /\ response' = send_json_response(getconfig_payload(g_config))
    /\ CloseAfter("getconfig")
    /\ UNCHANGED <<clock, tones, main_vars, nav_vars, data_vars, listening, refuse_chunk, request_buffer,
                   nav_seen, json_payload, nav_history, cycle_history>>

\* ---- GET /estado, lines 591-598 ----
estado_payload(reading) ==
    Take(<<"{">>
         \o JsonFields(Metrics, MetricChars,
                       [m \in DOMAIN reading |->
                            FormatFloat(reading[m], IF m = "pressao" THEN 3 ELSE 2)])
         \o <<"}">>,
         ESTADO_PAYLOAD_SIZE - 1)

handle_estado ==
    /\ Dispatched("estado")
    /\ response' = send_json_response(estado_payload(g_reading))
    /\ CloseAfter("estado")
    /\ UNCHANGED <<clock, tones, main_vars, nav_vars, data_vars, listening, refuse_chunk, request_buffer,
                   nav_seen, json_payload, nav_history, cycle_history>>

\* ---- the pages, lines 599-616, and send_full_response, lines 453-478 ----
\* strlen of the string literals of lines 103-241.
TemplateLength ==
    [HTML_HEADER |-> 943, HTML_NAV |-> 869, HTML_CONTENT_INICIO |-> 1273,
     HTML_CONTENT_CONFIG |-> 3658, HTML_CONTENT_CHART_PAGE |-> 2205, HTML_FOOTER |-> 114]

\* strlen(final_content) after lines 457-465.  Only the chart template holds
\* "%d", and it is passed to snprintf as the format: "%d" becomes "20", and the
\* "%)" of line 217, which is no conversion specification, is copied with or
\* without its '%' according to the printf in use.
FinalContentLengths(template) ==
    IF template = "HTML_CONTENT_CHART_PAGE"
    THEN {TemplateLength[template] - 1, TemplateLength[template]}
    ELSE {Min({TemplateLength[template], FINAL_CONTENT_SIZE - 1})}

handle_page ==
    /\ conn_pc = "dispatch"
    /\ Route(request_buffer) \in
           {"HTML_CONTENT_CONFIG", "HTML_CONTENT_CHART_PAGE", "HTML_CONTENT_INICIO"}
    /\ \E final_content \in FinalContentLengths(Route(request_buffer)) :
           LET chunks == <<TemplateLength.HTML_HEADER, TemplateLength.HTML_NAV,
                           final_content, TemplateLength.HTML_FOOTER>>
           IN  response' =
                   [type |-> "html", status |-> 200,
                    content_length |-> chunks[1] + chunks[2] + chunks[3] + chunks[4],
                    body |-> <<"HTML_HEADER", "HTML_NAV", Route(request_buffer),
                               "HTML_FOOTER">>,
                    header_written |-> Accepted(1),
                    body_written |->
                        (IF Accepted(2) THEN chunks[1] ELSE 0)
                        + (IF Accepted(3) THEN chunks[2] ELSE 0)
                        + (IF Accepted(4) THEN chunks[3] ELSE 0)
                        + (IF Accepted(5) THEN chunks[4] ELSE 0)]
    /\ CloseAfter(Route(request_buffer))
    /\ UNCHANGED <<clock, tones, main_vars, nav_vars, data_vars, listening, refuse_chunk, request_buffer,
                   nav_seen, json_payload, nav_history, cycle_history>>

(***************************************************************************)
(* Requests the peers send                                                 *)
(***************************************************************************)
HTTP_VERSION ==
    <<"H","T","T","P","/","1",".","1">>
GET_ROOT ==
    <<"G","E","T"," ","/"," ">>
BODY_EXAMPLE ==
    <<"t","e","m","p","_","o","f","f","s","e","t","=","1",".","5","&","u","m","i","d","_","m","i","n","=","6","5">>
BODY_TEMP_MIN ==
    <<"t","e","m","p","_","m","i","n","=","5",".","0">>
BODY_SKIPPED ==
    <<"b","o","g","u","s","=","1","&","t","e","m","p","_","m","a","x","=","3","5","&","n","o","v","a","l","u","e","&","a","l","t","_","m","i","n","=","2",".","2","5">>
BODY_LIMITS ==
    <<"p","r","e","s","s","_","m","i","n","=","9","0",".","5","&","p","r","e","s","s","_","m","a","x","=","1","0","1",".","5","&","a","l","t","_","m","a","x","=","9","&","a","l","t","_","m","i","n","=","7">>
BODY_BAND_HIGH ==
    <<"t","e","m","p","_","m","i","n","=","3","0">>
BODY_BAND_LOW ==
    <<"t","e","m","p","_","m","i","n","=","1","0","&","t","e","m","p","_","m","a","x","=","2","0">>
BODY_INVERTED_HIGH ==
    <<"t","e","m","p","_","m","i","n","=","5","0">>
BODY_INVERTED_LOW ==
    <<"t","e","m","p","_","m","i","n","=","2","0","&","t","e","m","p","_","m","a","x","=","1","0">>

\* A request: its request line, a blank line, its body.
Request(line, body) == line \o HTTP_VERSION \o CRLFCRLF \o body

REQ_NAVIGATE == Request(GET_NAVIGATE, <<>>)
REQ_HOME == Request(GET_ROOT, <<>>)
REQ_ESTADO == Request(GET_ESTADO, <<>>)
REQ_GETCONFIG == Request(GET_GETCONFIG, <<>>)

GET_DOESNOTEXIST ==
    <<"G","E","T"," ","/","d","o","e","s","n","o","t","e","x","i","s","t"," ">>
BODY_NOTE ==
    <<"n","o","t","e","=","G","E","T"," ","/","n","a","v","i","g","a","t","e"," ">>
HEADER_NOTE ==
    <<"\r","\n","X","-","L","a","s","t",":"," ","G","E","T"," ","/","e","s","t","a","d","o"," ">>

\* A request with one header line after its request line.
RequestWithHeader(line, header) == line \o HTTP_VERSION \o header \o CRLFCRLF

REQ_CONFIG_PAGE == Request(GET_CONFIG, <<>>)
REQ_CHART == Request(GET_TEMPERATURA, <<>>)
REQ_UNKNOWN == Request(GET_DOESNOTEXIST, <<>>)
REQ_UNKNOWN_NOTED == RequestWithHeader(GET_DOESNOTEXIST, HEADER_NOTE)
REQ_POST_NOTE == Request(POST_CONFIG, BODY_NOTE)
REQ_POST_TEMP_MIN == Request(POST_CONFIG, BODY_TEMP_MIN)

NavRequests == {REQ_NAVIGATE, REQ_HOME}
MailboxRequests ==
    {REQ_NAVIGATE, REQ_ESTADO, REQ_GETCONFIG, REQ_CONFIG_PAGE, REQ_POST_TEMP_MIN}
ServeRequests ==
    {REQ_NAVIGATE, REQ_ESTADO, REQ_GETCONFIG, REQ_CHART, REQ_UNKNOWN, REQ_UNKNOWN_NOTED,
     REQ_POST_NOTE, REQ_POST_TEMP_MIN}
CycleRequests ==
    {REQ_ESTADO, Request(POST_CONFIG, BODY_BAND_HIGH), Request(POST_CONFIG, BODY_BAND_LOW)}
\* A pressure offset that brings the sampled 90 kPa to 101.325 kPa.
BODY_PRESS_OFFSET ==
    <<"p","r","e","s","s","_","o","f","f","s","e","t","=","1","1",".","3","2","5">>
\* A request for the home page with a query string.
GET_HOME_QUERY ==
    <<"G","E","T"," ","/","?","n","o","t","e","=","0","1","2","3","4","5","6","7","8","9","a","b","c","&","t","e","m","p","_","m","i","n","=","5","0"," ">>
REQ_HOME_QUERY == Request(GET_HOME_QUERY, <<>>)
\* The first read of a POST /config whose body travels in a later segment.
REQ_POST_HEAD == Request(POST_CONFIG, <<>>)
SplitRequests ==
    {REQ_POST_HEAD, REQ_HOME_QUERY, REQ_GETCONFIG, Request(POST_CONFIG, BODY_TEMP_MIN)}
AltitudeRequests ==
    {REQ_ESTADO, Request(POST_CONFIG, BODY_PRESS_OFFSET)}
BandRequests ==
    {Request(POST_CONFIG, BODY_INVERTED_HIGH), Request(POST_CONFIG, BODY_INVERTED_LOW)}
SampleRequests ==
    {REQ_ESTADO, Request(POST_CONFIG, BODY_EXAMPLE)}
ConfigRequests ==
    {REQ_GETCONFIG, Request(POST_CONFIG, BODY_EXAMPLE), Request(POST_CONFIG, BODY_TEMP_MIN),
     Request(POST_CONFIG, BODY_SKIPPED), Request(POST_CONFIG, BODY_LIMITS)}

(***************************************************************************)
(* Specifications                                                          *)
(***************************************************************************)
\* The buttons and the /navigate mailbox.
NextNav ==
    \/ \E d \in NavTicks : Tick(d, NavMaxNowMs)
    \/ ButtonEdge
    \/ wifi_connect
    \/ start_http_server
    \/ \E payload \in NavRequests : tcp_server_recv_copy(payload)
    \/ navigate_test
    \/ navigate_format
    \/ navigate_clear
    \/ navigate_send
    \/ handle_page

SpecNav == Init /\ [][NextNav]_vars

\* The sample cycle, with /estado and /config requests arriving during it.
NextCycle ==
    \/ \E d \in CycleTicks : Tick(d, CycleMaxNowMs)
    \/ wifi_connect
    \/ start_http_server
    \/ main_poll
    \/ main_acquire
    \/ main_write_temperatura
    \/ main_write_umidade
    \/ main_write_pressao
    \/ main_write_altitude
    \/ main_test_temp_max
    \/ main_test_temp_min
    \/ main_test_umid_max
    \/ main_test_umid_min
    \/ main_render
    \/ main_sleep
    \/ \E payload \in CycleRequests : tcp_server_recv_copy(payload)
    \/ handle_estado
    \/ handle_post_config

SpecCycle == Init /\ [][NextCycle]_vars

\* The configuration store, written by POST /config and read by GET /getconfig.
NextConfig ==
    \/ wifi_connect
    \/ start_http_server
    \/ \E payload \in ConfigRequests : tcp_server_recv_copy(payload)
    \/ handle_post_config
    \/ handle_getconfig

SpecConfig == Init /\ [][NextConfig]_vars

\* The server receiving the first read of split POST requests among page and
\* configuration requests.  The callback closes the connection at line 619, so a
\* later segment of the same request is answered by the stack with a reset and
\* reaches no callback.
NextSplit ==
    \/ wifi_connect
    \/ start_http_server
    \/ \E payload \in SplitRequests : tcp_server_recv_copy(payload)
    \/ handle_post_config
    \/ handle_getconfig
    \/ handle_page

SpecSplit == Init /\ [][NextSplit]_vars

\* The server alone: every route, no button edge and no sample cycle.
NextServe ==
    \/ wifi_connect
    \/ start_http_server
    \/ \E k \in 0..MaxChunks : tcp_write_refuses(k)
    \/ \E payload \in ServeRequests : tcp_server_recv_copy(payload)
    \/ tcp_server_recv_null
    \/ navigate_test
    \/ navigate_send
    \/ handle_post_config
    \/ handle_getconfig
    \/ handle_estado
    \/ handle_page

SpecServe == Init /\ [][NextServe]_vars

\* The /navigate mailbox from boot, with the other routes served in between.
NextMailbox ==
    \/ \E d \in MailboxTicks : Tick(d, MailboxMaxNowMs)
    \/ ButtonEdge
    \/ wifi_connect
    \/ start_http_server
    \/ \E payload \in MailboxRequests : tcp_server_recv_copy(payload)
    \/ navigate_test
    \/ navigate_format
    \/ navigate_clear
    \/ navigate_send
    \/ handle_post_config
    \/ handle_getconfig
    \/ handle_estado
    \/ handle_page

SpecMailbox == Init /\ [][NextMailbox]_vars

\* The sample cycle while the temperature band is being set to inverted limits.
NextBand ==
    \/ \E d \in CycleTicks : Tick(d, CycleMaxNowMs)
    \/ wifi_connect
    \/ start_http_server
    \/ main_poll
    \/ main_acquire
    \/ main_write_temperatura
    \/ main_write_umidade
    \/ main_write_pressao
    \/ main_write_altitude
    \/ main_test_temp_max
    \/ main_test_temp_min
    \/ main_test_umid_max
    \/ main_test_umid_min
    \/ main_render
    \/ main_sleep
    \/ \E payload \in BandRequests : tcp_server_recv_copy(payload)
    \/ handle_post_config

SpecBand == Init /\ [][NextBand]_vars

\* The sample cycle, with a request that posts an offset and a request that
\* reads the readings.
NextSample ==
    \/ \E d \in CycleTicks : Tick(d, CycleMaxNowMs)
    \/ wifi_connect
    \/ start_http_server
    \/ main_poll
    \/ main_acquire
    \/ main_write_temperatura
    \/ main_write_umidade
    \/ main_write_pressao
    \/ main_write_altitude
    \/ main_test_temp_max
    \/ main_test_temp_min
    \/ main_test_umid_max
    \/ main_test_umid_min
    \/ main_render
    \/ main_sleep
    \/ \E payload \in SampleRequests : tcp_server_recv_copy(payload)
    \/ handle_post_config
    \/ handle_estado

SpecSample == Init /\ [][NextSample]_vars

\* The sample cycle, with a request that posts a pressure offset and a request
\* that reads the readings.
NextAltitude ==
    \/ \E d \in CycleTicks : Tick(d, CycleMaxNowMs)
    \/ wifi_connect
    \/ start_http_server
    \/ main_poll
    \/ main_acquire
    \/ main_write_temperatura
    \/ main_write_umidade
    \/ main_write_pressao
    \/ main_write_altitude
    \/ main_test_temp_max
    \/ main_test_temp_min
    \/ main_test_umid_max
    \/ main_test_umid_min
    \/ main_render
    \/ main_sleep
    \/ \E payload \in AltitudeRequests : tcp_server_recv_copy(payload)
    \/ handle_post_config
    \/ handle_estado

SpecAltitude == Init /\ [][NextAltitude]_vars

\* One sample cycle with everything that can interrupt it: button edges and the
\* receive callback.
NextIndicator ==
    \/ \E d \in CycleTicks : Tick(d, IndicatorMaxNowMs)
    \/ ButtonEdge
    \/ wifi_connect
    \/ start_http_server
    \/ main_poll
    \/ main_acquire
    \/ main_write_temperatura
    \/ main_write_umidade
    \/ main_write_pressao
    \/ main_write_altitude
    \/ main_test_temp_max
    \/ main_test_temp_min
    \/ main_test_umid_max
    \/ main_test_umid_min
    \/ main_render
    \/ main_sleep
    \/ \E payload \in SampleRequests : tcp_server_recv_copy(payload)
    \/ handle_post_config
    \/ handle_estado

SpecIndicator == Init /\ [][NextIndicator]_vars

(***************************************************************************)
(* Navigation: the page index, the debounce and the /navigate mailbox      *)
(***************************************************************************)
InRange(index) == index \in 0..(Len(G_PAGES) - 1)

\* C1: the page index is always one of 0..5, a valid position of the six-entry
\* route list, whatever sequence of button edges has been processed.
C1_IndexInRange == InRange(g_current_page_index)

\* C2: an edge accepted by the debounce (500 ms or more after the last accepted
\* one) moves the index cyclically modulo 6 - A one back, 0 to 5; B one forward,
\* 5 to 0 - stamps the press time and puts the route of the new index in
\* g_target_page.
C2_AcceptedEdgeCycles ==
    [][\A gpio \in Buttons :
         (/\ gpio_callback(gpio)
          /\ ElapsedMs(clock, g_last_press_time) >= DEBOUNCE_MS
          /\ InRange(g_current_page_index))
         => /\ g_current_page_index' =
                   (IF gpio = BUTTON_B
                    THEN g_current_page_index + 1
                    ELSE g_current_page_index - 1) % Len(G_PAGES)
            /\ g_target_page' = G_PAGES[g_current_page_index' + 1]
            /\ g_last_press_time' = clock]_vars

\* C3: an edge less than 500 ms after the last accepted one changes nothing: not
\* the index, not g_target_page, not the press time, so the window keeps
\* running from the last accepted edge.
C3_IgnoredEdgeIsNoOp ==
    [][\A gpio \in Buttons :
         (gpio_callback(gpio) /\ ElapsedMs(clock, g_last_press_time) < DEBOUNCE_MS)
         => UNCHANGED nav_vars]_vars

\* An edge has just been ignored, 250 ms after an accepted one whose target is
\* still in the mailbox.
C3_IgnoredEdgeSeen ==
    /\ last_irq.gpio \in Buttons
    /\ ~last_irq.accepted
    /\ g_last_press_time > 0
    /\ ElapsedMs(clock, g_last_press_time) \in 1..(DEBOUNCE_MS - 1)
    /\ g_target_page \in {G_PAGES[i] : i \in 1..Len(G_PAGES)}

\* C4: GET /navigate answers the route of the most recent accepted edge exactly
\* once: a request entered while that route is still owed answers it, a request
\* entered with nothing owed and no edge meanwhile answers {"goto":"null"}, and
\* no edge's route is answered twice.
C4_NavigateDeliversOnce ==
    [][navigate_send
         => /\ (owed_at_recv /\ ~edge_since_recv /\ InRange(g_current_page_index))
                => json_payload =
                       GOTO_OPEN \o CStr(G_PAGES[g_current_page_index + 1]) \o GOTO_CLOSE
            /\ (~owed_at_recv /\ ~edge_since_recv) => json_payload = GOTO_NULL
            /\ deliveries' <= 1]_vars

\* C5: an edge accepted after the /navigate handler has read g_target_page and
\* before it stores NULL there is erased: its route is in no response, and the
\* mailbox is empty, so no later response carries it either.
C5_EdgeInTheGapIsErased == lost => (owed /\ g_target_page = NULL)

\* The edge was lost, and a /navigate request made after it was answered null
\* although the index it moved to is a valid page.
C5_LostEdgeSeen ==
    /\ lost
    /\ conn_pc = "idle"
    /\ last_handler = "navigate"
    /\ response.body = GOTO_NULL
    /\ owed_at_recv
    /\ InRange(g_current_page_index)

(***************************************************************************)
(* The sample cycle: readings and the alert                                *)
(***************************************************************************)
\* C6: a GET /estado handler never serializes a torn Reading: the four values
\* it reports were all written by the same sample cycle, under every
\* interleaving of the cycle and the handler.
C6_EstadoNeverTorn ==
    [][handle_estado
         => Cardinality({reading_cycle[m] : m \in DOMAIN reading_cycle} \ {0}) <= 1]_vars

\* The alert of the specification: temperature or humidity outside its band.
evaluateAlert(reading, config) ==
    \/ reading.temperatura < config.temp_min
    \/ reading.temperatura > config.temp_max
    \/ reading.umidade < config.umid_min
    \/ reading.umidade > config.umid_max

\* C7: the alert a sample cycle computes is true iff the temperature Reading is
\* below temp_min or above temp_max, or the humidity Reading is below umid_min
\* or above umid_max - for a configuration that was in force while the cycle
\* compared; pressure and altitude have no part in it.
C7_AlertIffOutOfBand ==
    [][main_render
         => \E config \in eval_configs : em_alerta = evaluateAlert(g_reading, config)]_vars

(***************************************************************************)
(* The configuration store                                                 *)
(***************************************************************************)
\* The configuration keys that the fields of a body name.
NamedKeys(body) ==
    LET tokens == strtok(body)
    IN  { k \in DOMAIN KeyChars :
            \E i \in 1..Len(tokens) :
                /\ strchr(tokens[i], "=") # 0
                /\ SubSeq(tokens[i], 1, strchr(tokens[i], "=") - 1) = KeyChars[k] }

\* C8: a POST /config changes exactly the configuration scalars named in its
\* body and leaves the other scalars, the four Readings and the navigation
\* state alone; the body "temp_offset=1.5&umid_min=65" sets temp_offset to 1.5
\* and umid_min to 65 and nothing else.
C8_PostChangesNamedKeysOnly ==
    [][handle_post_config
         => /\ \A k \in DOMAIN g_config \ NamedKeys(PostBody(p)) :
                   g_config'[k] = g_config[k]
            /\ PostBody(p) = BODY_EXAMPLE
                   => g_config' = [g_config EXCEPT !.temp_offset = 1500,
                                                   !.umid_min = 65000]
            /\ UNCHANGED <<g_reading, nav_vars>>]_vars

\* C9: in a POST /config body a field with an unknown key and a field without
\* '=' are skipped and change nothing, the known fields before and after them
\* are applied, and the reply is the empty 200: the body
\* "bogus=1&temp_max=35&novalue&alt_min=2.25" sets temp_max to 35 and alt_min
\* to 2.25 and nothing else.
C9_SkippedFieldsDoNotAbort ==
    [][(handle_post_config /\ PostBody(p) = BODY_SKIPPED)
         => /\ g_config' = [g_config EXCEPT !.temp_max = 35000, !.alt_min = 2250]
            /\ response' = EmptyOk
            /\ UNCHANGED <<g_reading, nav_vars>>]_vars

\* C10: a GET /getconfig that follows a POST /config setting one known key to v
\* reports v for that key and the values held before the POST for the other
\* eleven, all twelve keys in their fixed order: after the body "temp_min=5.0"
\* it reports temp_min 5.00.
C10_ConfigRoundTrip ==
    [][(handle_getconfig /\ last_handler = "post_config" /\ posted.body = BODY_TEMP_MIN)
         => response'.body =
                getconfig_payload([posted.before EXCEPT !.temp_min = 5000])]_vars

(***************************************************************************)
(* Routing, responses and connections                                      *)
(***************************************************************************)
METHOD_GET ==
    <<"G","E","T">>
METHOD_POST ==
    <<"P","O","S","T">>
PATH_NAVIGATE ==
    <<"/","n","a","v","i","g","a","t","e">>
PATH_GETCONFIG ==
    <<"/","g","e","t","c","o","n","f","i","g">>
PATH_ESTADO ==
    <<"/","e","s","t","a","d","o">>

\* The method and the path of a request line: the text before the first space
\* and the text between the first and the second.
Method(request) == Take(request, strchr(request, " ") - 1)
Path(request) ==
    LET rest == Drop(request, strchr(request, " "))
    IN  IF strchr(rest, " ") = 0 THEN rest ELSE Take(rest, strchr(rest, " ") - 1)

\* The route table of the specification, matched exactly on (method, path).
TableHandler(method, path) ==
    IF method = METHOD_POST /\ path = CStr("/config") THEN "post_config"
    ELSE IF method # METHOD_GET THEN "unspecified"
    ELSE IF path = PATH_NAVIGATE THEN "navigate"
    ELSE IF path = PATH_GETCONFIG THEN "getconfig"
    ELSE IF path = PATH_ESTADO THEN "estado"
    ELSE IF path = CStr("/config") THEN "HTML_CONTENT_CONFIG"
    ELSE IF path \in {CStr("/temperatura"), CStr("/umidade"), CStr("/pressao"),
                      CStr("/altitude")} THEN "HTML_CONTENT_CHART_PAGE"
    ELSE "HTML_CONTENT_INICIO"

\* C11: the handler that runs for a request is the one its request line's
\* (method, path) selects in the route table by exact match; text in the
\* headers or in the body never changes it.
C11_RouteByRequestLine ==
    [][(p # <<>> /\ p' = <<>> /\ TableHandler(Method(p), Path(p)) # "unspecified")
         => last_handler' = TableHandler(Method(p), Path(p))]_vars

\* C12: a request whose request line matches no row of the route table is
\* answered with the home-page template, and every request is answered with
\* status 200, never with a 4xx or 5xx status.
C12_UnknownRouteIsHome ==
    [][(p # <<>> /\ p' = <<>>)
         => /\ response'.status = 200
            /\ TableHandler(Method(p), Path(p)) = "HTML_CONTENT_INICIO"
                   => /\ response'.type = "html"
                      /\ response'.body = <<"HTML_HEADER", "HTML_NAV",
                                            "HTML_CONTENT_INICIO", "HTML_FOOTER">>]_vars

\* C13: for every response - page, JSON, empty - the Content-Length its header
\* declares is the number of body bytes handed to tcp_write, also when the
\* page is cut to the 4096-byte buffer and when tcp_write refuses a chunk.
C13_ContentLengthIsBodyLength ==
    response.type # "none" => response.content_length = response.body_written

\* C14: a connection whose receive callback has fired is closed when the
\* callback returns, on every path: with data, exactly one handler has run and
\* one response was written; without (the peer closed first), none.
C14_ClosedWithinCallback ==
    /\ [](conn_pc = "idle" => pcb = "CLOSED")
    /\ [][(p # <<>> /\ p' = <<>>)
            => /\ pcb' = "CLOSED"
               /\ conn_pc' = "idle"
               /\ response.type = "none"
               /\ response'.type # "none"
               /\ last_handler' # "none"]_vars
    /\ [][tcp_server_recv_null
            => (pcb' = "CLOSED" /\ response'.type = "none" /\ last_handler' = "none")]_vars

\* A callback that was handed a request has returned: the /estado handler ran,
\* its JSON reply was written, the connection is closed.
C14_ServedAndClosed ==
    /\ conn_pc = "idle"
    /\ pcb = "CLOSED"
    /\ last_handler = "estado"
    /\ response.type = "json"
    /\ response.header_written


(***************************************************************************)
(* Ownership of the navigation globals                                     *)
(***************************************************************************)
Routes == {G_PAGES[i] : i \in 1..Len(G_PAGES)}

\* C15: the index and the timestamp change only in the button interrupt, which
\* touches nothing besides the three navigation globals and stores a route, never
\* the null pointer, in the pending target; any other change of the pending
\* target is the clear of the /navigate handler.
C15_SingleWriter ==
    [][/\ (g_current_page_index' # g_current_page_index
           \/ g_last_press_time' # g_last_press_time)
          => /\ UNCHANGED <<clock, tones, main_vars, data_vars, conn_vars>>
             /\ g_target_page' \in Routes
       /\ (g_target_page' # g_target_page /\ g_last_press_time' = g_last_press_time)
          => /\ conn_pc = "nav_clear"
             /\ g_target_page' = NULL
             /\ g_current_page_index' = g_current_page_index]_vars


\* C16: as long as no button edge has been accepted since boot (the timestamp of
\* the last accepted edge still has its initial value), every reply to
\* GET /navigate is {"goto":null}, whatever was served before it.
C16_NullUntilFirstEdge ==
    (g_last_press_time = 0 /\ last_handler = "navigate" /\ response.type = "json")
        => response.body = GOTO_NULL

\* A /navigate answered with null after a POST /config was served and an edge was
\* ignored by the debounce.
C16_NullAfterOtherRequests ==
    /\ g_last_press_time = 0
    /\ last_irq.gpio # 0
    /\ posted.body # <<>>
    /\ conn_pc = "idle"
    /\ last_handler = "navigate"
    /\ response.body = GOTO_NULL


(***************************************************************************)
(* The sample cycle                                                        *)
(***************************************************************************)
\* C17: with min > max, one of value < min, value > max is true of every value,
\* so an evaluation made while the temperature band (or the humidity band) is
\* inverted at each of its comparisons ends with the alert set, whatever the
\* reading is.
C17_InvertedBandIsConstant ==
    [][(main_pc # "render" /\ main_pc' = "render"
        /\ \/ \A c \in eval_configs' : c.temp_min > c.temp_max
           \/ \A c \in eval_configs' : c.umid_min > c.umid_max)
          => em_alerta']_vars


CycleOrder ==
    <<"start", "acquire", "temperatura", "umidade", "pressao", "altitude",
      "evaluate", "render">>
IsPrefix(s, t) == Len(s) <= Len(t) /\ s = SubSeq(t, 1, Len(s))
RawValue(metric) ==
    CASE metric = "temperatura" -> sample.temperature
      [] metric = "umidade" -> sample.humidity
      [] metric = "pressao" -> sample.pressure_pa \div 1000
      [] metric = "altitude" -> calculate_altitude(sample.pressure_pa)
OffsetOf(metric) ==
    CASE metric = "temperatura" -> g_config.temp_offset
      [] metric = "umidade" -> g_config.umid_offset
      [] metric = "pressao" -> g_config.press_offset
      [] metric = "altitude" -> g_config.alt_offset
MetricNames == {Metrics[i] : i \in 1..Len(Metrics)}

\* C18: a sample cycle starts only when 2000 ms or more have passed since the
\* start of the previous one, and its steps are made in the order acquisition,
\* the writes of temperature, humidity, pressure and altitude (each the raw value
\* plus the offset the metric has at that moment), evaluation, render; readings,
\* alert and indicator change in no other step.
C18_PeriodAndOrder ==
    /\ [](IsPrefix(steps, CycleOrder))
    /\ [][(steps' # steps /\ steps' = <<"start">>)
            => /\ ElapsedMs(clock, last_sensor_read_ms) >= SAMPLE_PERIOD_MS
               /\ last_sensor_read_ms' = clock]_vars
    /\ [][\A m \in MetricNames :
            /\ steps' = Append(steps, m)
                 => g_reading' = [g_reading EXCEPT ![m] = RawValue(m) + OffsetOf(m)]
            /\ g_reading'[m] # g_reading[m] => steps' = Append(steps, m)]_vars
    /\ [][/\ sample' # sample => steps' = <<"start", "acquire">>
          /\ em_alerta' # em_alerta => steps' = SubSeq(CycleOrder, 1, 7)
          /\ matrix' # matrix => (steps # steps' /\ steps' = CycleOrder)]_vars

\* The second cycle has finished, 2000 ms after the first, and its temperature
\* was written with a posted offset of 1.5.
C18_SecondCycleWithOffset ==
    /\ cycle = 2
    /\ steps = CycleOrder
    /\ last_sensor_read_ms = 2 * SAMPLE_PERIOD_MS
    /\ g_config.temp_offset = 1500
    /\ g_reading.temperatura = sample.temperature + 1500


PatternFor(alert) == IF alert THEN "alerta1" ELSE "matrizVazia"

\* C19: the render that ends a sample cycle draws the alert pattern if the alert
\* computed in that cycle, after its four readings were written, is true, and the
\* blank pattern if it is false, and the matrix keeps that pattern once the cycle
\* has ended; the matrix changes in no other step: not in a step of the receive
\* callback, not in the button interrupt.
C19_IndicatorFollowsAlert ==
    /\ [][(steps' # steps /\ steps' = CycleOrder)
            => /\ matrix' = PatternFor(em_alerta)
               /\ \A m \in MetricNames : reading_cycle[m] = cycle]_vars
    /\ [](steps = CycleOrder => matrix = PatternFor(em_alerta))
    /\ [][matrix' # matrix => (steps' # steps /\ steps' = CycleOrder)]_vars
    /\ [][(conn_pc # "idle" \/ nav_vars' # nav_vars \/ last_irq' # last_irq)
            => matrix' = matrix]_vars

\* A cycle ended with the alert pattern drawn, after an accepted button edge and
\* a served /estado request.
C19_AlertShown ==
    /\ steps = CycleOrder
    /\ em_alerta
    /\ matrix = "alerta1"
    /\ last_irq.accepted
    /\ last_handler = "estado"


(***************************************************************************)
(* Start-up of the server                                                  *)
(***************************************************************************)
\* start_http_server has returned without registering the accept callback.
ListenAbandoned ==
    main_pc \notin {"wifi_connect", "start_http_server", "exited"} /\ ~listening

\* C20: once start_http_server has returned without a listening socket, it stays
\* that way: no connection reaches the receive callback, no handler runs and no
\* response is written, and main stays in its loop.
C20_ListenFailureIsFinal ==
    /\ [](ListenAbandoned
            => /\ conn_pc = "idle" /\ pcb = "CLOSED" /\ p = <<>>
               /\ last_handler = "none" /\ response = NoResponse)
    /\ [][ListenAbandoned => ListenAbandoned']_vars

\* Two sample cycles have run to their end with no listening socket.
C20_CyclesWithoutServer ==
    ListenAbandoned /\ cycle = 2 /\ steps = CycleOrder


\* C21: tocar_buzzer is called only by the connection step of start-up, before
\* the server listens and before any sample cycle, and by no step of the loop, of
\* the receive callback or of the button interrupt; after the failure tone main
\* has returned, and no server, handler or sample cycle ever runs.
C21_BuzzerOnlyAtStartup ==
    /\ [][tones' # tones
            => /\ main_pc = "wifi_connect" /\ conn_pc = "idle" /\ conn_pc' = "idle"
               /\ ~listening /\ ~listening' /\ cycle = 0
               /\ nav_vars' = nav_vars]_vars
    /\ []((listening \/ cycle > 0 \/ steps # <<>>) => tones = CONNECTED_TONES)
    /\ [](main_pc = "exited" <=> tones = FAILURE_TONE)
    /\ [](tones = FAILURE_TONE
            => /\ ~listening /\ conn_pc = "idle" /\ last_handler = "none"
               /\ cycle = 0 /\ steps = <<>> /\ matrix = "off")
    /\ [][main_pc = "exited" => main_pc' = "exited"]_vars

\* The connection failed, the failure tone (300 Hz for one second) was played,
\* and two seconds later nothing else has run.
C21_FailedAndSilent ==
    /\ main_pc = "exited"
    /\ tones = <<[freq |-> 300, duracao |-> 1000, ciclos |-> 600]>>
    /\ clock = IndicatorMaxNowMs


\* C22: the readings and the matrix change only in the steps of a sample cycle.
\* A POST /config changes neither, whatever limits or offsets it sets, and an
\* /estado request served before the next cycle returns the readings as the last
\* cycle wrote them.
C22_StaleBetweenCycles ==
    /\ [][steps' = steps
            => /\ g_reading' = g_reading /\ reading_cycle' = reading_cycle
               /\ matrix' = matrix
               /\ em_alerta' # em_alerta => steps = SubSeq(CycleOrder, 1, 7)]_vars
    /\ [][g_config' # g_config
            => /\ g_reading' = g_reading /\ matrix' = matrix /\ steps' = steps
               /\ last_handler' = "post_config"]_vars
    /\ [][(conn_pc = "dispatch" /\ conn_pc' = "idle" /\ last_handler' = "estado")
            => response'.body = estado_payload(g_reading)]_vars

\* Between two cycles: the cycle left temperature 25.0 and a blank matrix, a POST
\* has since raised temp_min to 30, and /estado was then served; the matrix is
\* still blank.
C22_StaleAfterPost ==
    /\ steps = CycleOrder
    /\ main_pc \in {"sleep", "poll"}
    /\ g_reading.temperatura = 25000
    /\ g_config.temp_min = 30000
    /\ matrix = "matrizVazia"
    /\ conn_pc = "idle"
    /\ last_handler = "estado"
    /\ response.body = estado_payload(g_reading)


(***************************************************************************)
(* The receive buffer                                                      *)
(***************************************************************************)
\* C23: when the read handed to the callback is a POST /config that ends with
\* the blank line of its header (the body is still to come), the callback changes
\* no configuration value, answers with the empty 200 and closes the connection.
C23_HeaderOnlyPostChangesNothing ==
    [][(p # <<>> /\ p' = <<>>
        /\ TableHandler(Method(p), Path(p)) = "post_config"
        /\ PostBody(p) = <<>>)
          => /\ g_config' = g_config
             /\ response'.type = "empty" /\ response'.status = 200
             /\ pcb' = "CLOSED"]_vars


\* The bytes of the request itself that fit the buffer.
OwnBytes(request) == Take(request, REQUEST_BUFFER_SIZE - 1)

\* C24: the handler a callback runs and the configuration it leaves are those
\* the bytes of its own request determine from the configuration it found: the
\* branch chosen for these bytes alone and, for a POST /config, the fields of
\* their body alone.
C24_NothingCarriedOver ==
    [][(p # <<>> /\ p' = <<>>)
         => /\ last_handler' = Route(OwnBytes(p))
            /\ g_config' = IF /\ Route(OwnBytes(p)) = "post_config"
                              /\ strstr(OwnBytes(p), CRLFCRLF) # 0
                           THEN parse_post_data(g_config, PostBody(OwnBytes(p)))
                           ELSE g_config]_vars


(***************************************************************************)
(* The debounce window                                                     *)
(***************************************************************************)
\* C25: one debounce window serves both buttons.  An edge of one button less
\* than 500 ms after an accepted edge of the other is ignored, and two accepted
\* edges, of whichever buttons, are at least 500 ms apart.
C25_SharedDebounce ==
    /\ [][\A gpio \in Buttons :
            (/\ gpio_callback(gpio)
             /\ last_irq.accepted /\ last_irq.gpio # gpio
             /\ ElapsedMs(clock, g_last_press_time) < DEBOUNCE_MS)
            => (UNCHANGED nav_vars /\ ~last_irq'.accepted)]_vars
    /\ [][(last_irq' # last_irq /\ last_irq'.accepted)
            => g_last_press_time' = clock]_vars
    /\ [][g_last_press_time' # g_last_press_time
            => /\ last_irq'.accepted
               /\ ElapsedMs(clock, g_last_press_time) >= DEBOUNCE_MS]_vars

\* Button B was accepted at 500 ms, and an edge of button A 250 ms later has
\* just been ignored.
C25_OtherButtonIgnored ==
    /\ clock = 750
    /\ g_last_press_time = 500
    /\ g_current_page_index = 1
    /\ last_irq = [gpio |-> BUTTON_A, accepted |-> FALSE]


(***************************************************************************)
(* The altitude reading                                                    *)
(***************************************************************************)
\* C26: the altitude written by a cycle is the altitude of the pressure sample as
\* the sensor gave it, plus alt_offset; press_offset enters the pressure reading
\* written by the cycles that follow its change and never the altitude reading.
C26_AltitudeIgnoresPressOffset ==
    /\ [][steps' = Append(steps, "altitude")
            => g_reading'.altitude =
                   calculate_altitude(sample.pressure_pa) + g_config.alt_offset]_vars
    /\ [][steps' = Append(steps, "pressao")
            => g_reading'.pressao =
                   (sample.pressure_pa \div 1000) + g_config.press_offset]_vars
    /\ [][g_config'.press_offset # g_config.press_offset
            => g_reading' = g_reading]_vars
    /\ [](\A pa \in PressureSamples :
            (reading_cycle.altitude > 0 /\ sample.pressure_pa = pa
             /\ g_config.alt_offset = DefaultConfig.alt_offset)
            => g_reading.altitude = calculate_altitude(pa))

\* The second cycle has written 101.325 kPa, the 90 kPa sampled plus the posted
\* offset, and the altitude of 90 kPa.
C26_OffsetInPressureOnly ==
    /\ cycle = 2
    /\ steps = CycleOrder
    /\ g_config.press_offset = 11325
    /\ g_reading.pressao = 101325
    /\ g_reading.altitude = 988672

==============================================================================
